---- MODULE Spec2Model ----
(***************************************************************************)
(* mern-server-setup: the two variants of the scaffolding generator.       *)
(*   "minimal"  src/index.js                                               *)
(*   "full"     src/unnamed/part_000                                       *)
(* One behaviour of Spec is one run of createServerSetup() of one variant;  *)
(* SpecTwice lets a second run follow a first one that succeeded.          *)
(* Strings that the code computes on (the answer to the prompt, the folder *)
(* name) are sequences of one-character strings; all other texts are       *)
(* opaque tags.  The file system, the subprocesses' exit statuses and the  *)
(* manifest the initializer produces are the environment: every file       *)
(* system call and every subprocess may fail.  Of the subprocesses' effects*)
(* on the disk only the initializer's manifest is modelled, because it is  *)
(* the only one the generator reads back.                                  *)
(***************************************************************************)
EXTENDS Integers, Sequences, FiniteSets, TLC

VARIABLES
    variant,     \* which generator script runs
    answer,      \* the line the operator types at the prompt
    userFolder,  \* const userFolder (<<>> until the prompt has resolved)
    pc,          \* position in createServerSetup
    idx,         \* position in the folders loop / in the template writes
    dirs,        \* directories that exist under (and including) baseDir
    files,       \* path -> content, relative to baseDir
    preexisting, \* the paths that held a file before the current run
    run,         \* 1 in the first run of the generator, 2 in a second one
    firstRun,    \* the files as the first run left them (set when a second starts)
    cwd,         \* process.cwd(): "origin" or "target"
    calls,       \* file-system calls and subprocesses, in order, with outcome
    stdout,      \* console.log lines, as tags
    stderr,      \* console.error lines, as tags
    packageJson, \* const packageJson: the parsed manifest, members in order
    thrown,      \* the step whose error left createServerSetup, or "none"
    exitCode     \* the exit code of the process (meaningful at pc = "done")

vars == <<variant, answer, userFolder, pc, idx, dirs, files, preexisting, run, firstRun,
          cwd, calls,
          stdout, stderr, packageJson, thrown, exitCode>>

(***************************************************************************)
(* Bounds and input sets                                                   *)
(***************************************************************************)
MaxLen == 3

Variants == {"minimal", "full"}

\* characters an answer is made of: two kinds of whitespace and a letter
Whitespace == {" ", "\t"}
Alphabet == Whitespace \cup {"a"}

RECURSIVE SeqsUpTo(_, _)
SeqsUpTo(S, n) ==
    IF n = 0 THEN {<<>>}
    ELSE LET shorter == SeqsUpTo(S, n - 1)
         IN  shorter \cup {Append(s, c) : s \in {t \in shorter : Len(t) = n - 1}, c \in S}

Answers == SeqsUpTo(Alphabet, MaxLen)

(***************************************************************************)
(* getUserFolder: answer.trim() || 'server'                                *)
(***************************************************************************)
DefaultFolder == <<"s", "e", "r", "v", "e", "r">>

RECURSIVE TrimStart(_)
TrimStart(s) ==
    IF s # <<>> /\ Head(s) \in Whitespace THEN TrimStart(Tail(s)) ELSE s

RECURSIVE TrimEnd(_)
TrimEnd(s) ==
    IF s # <<>> /\ s[Len(s)] \in Whitespace
    THEN TrimEnd(SubSeq(s, 1, Len(s) - 1))
    ELSE s

Trim(s) == TrimEnd(TrimStart(s))

\* a mutant: only the leading whitespace is removed
getUserFolder_StartOnly(a) ==
    IF TrimStart(a) = <<>> THEN DefaultFolder ELSE TrimStart(a)

\* '' is falsy, so an empty trimmed answer yields the default
getUserFolder(a) ==
    IF Trim(a) = <<>> THEN DefaultFolder ELSE Trim(a)

(***************************************************************************)
(* The on-disk layout.  A path is <<directory, file name>> relative to     *)
(* baseDir; "." is baseDir itself.                                         *)
(***************************************************************************)
Root == "."

\* const folders = [...]
folders == <<"config", "controllers", "middlewares", "models", "routes", "utils">>

\* the fs.writeFile calls that precede process.chdir, in source order
TemplatesMinimal ==
    << <<Root, ".env">>, <<Root, ".gitignore">>, <<"config", "db.js">>,
       <<"models", "itemModel.js">>, <<"controllers", "itemController.js">>,
       <<"middlewares", "authMiddleware.js">>, <<"routes", "itemRoutes.js">>,
       <<"utils", "generateToken.js">>, <<Root, "server.js">> >>

TemplatesFull ==
    << <<Root, ".env">>, <<Root, ".gitignore">>, <<"config", "db.js">>,
       <<"models", "User.js">>, <<"models", "Item.js">>,
       <<"controllers", "authController.js">>, <<"controllers", "itemController.js">>,
       <<"middlewares", "authMiddleware.js">>, <<"middlewares", "asyncHandler.js">>,
       <<"middlewares", "errorHandler.js">>, <<"routes", "auth.js">>,
       <<"routes", "items.js">>, <<"utils", "generateToken.js">>,
       <<Root, "server.js">> >>

\* a mutant: the writes of the two route files are missing
Templates_NoRoutes(v) ==
    IF v = "minimal"
    THEN SubSeq(TemplatesMinimal, 1, 6) \o SubSeq(TemplatesMinimal, 8, 9)
    ELSE SubSeq(TemplatesFull, 1, 10) \o SubSeq(TemplatesFull, 13, 14)

Templates(v) == IF v = "minimal" THEN TemplatesMinimal ELSE TemplatesFull

packageJsonPath == <<Root, "package.json">>
ReadmePath == <<Root, "README.md">>
StrangerPath == <<Root, "notes.txt">>

Range(s) == {s[i] : i \in DOMAIN s}

Paths == Range(TemplatesMinimal) \cup Range(TemplatesFull)
             \cup {packageJsonPath, ReadmePath, StrangerPath}

(***************************************************************************)
(* File contents.  Every content is [kind, entries]; a JSON text is the    *)
(* sequence of its top-level members in textual order, a template literal  *)
(* is named by its variant and path and carries the interpolated folder.   *)
(***************************************************************************)
Str(s) == [kind |-> "str", v |-> <<s>>]
Arr(s) == [kind |-> "arr", v |-> s]
Obj(s) == [kind |-> "obj", v |-> s]      \* key, value, key, value, ...
Member(k, val) == [key |-> k, val |-> val]

Absent == [kind |-> "absent", entries |-> <<>>]
Old == [kind |-> "old", entries |-> <<>>]
Malformed == [kind |-> "malformed", entries |-> <<>>]
JsonText(members) == [kind |-> "json", entries |-> members]
Literal(v, p, interp) ==
    [kind |-> "literal",
     entries |-> <<Member(p[2], [kind |-> v, v |-> <<p[1]>> \o interp])>>]

\* the template literal of path p; only README.md interpolates ${userFolder}
TemplateContent(v, p, folder) ==
    Literal(v, p, IF p = ReadmePath THEN folder ELSE <<>>)

(***************************************************************************)
(* JSON.parse / property assignment / JSON.stringify on the manifest.      *)
(* An object is the sequence of its members in insertion order.            *)
(***************************************************************************)
HasKey(obj, k) == \E i \in DOMAIN obj : obj[i].key = k

Get(obj, k) == obj[CHOOSE i \in DOMAIN obj : obj[i].key = k].val

\* obj[k] = val: an existing key keeps its place, a new key is appended
SetKey(obj, k, val) ==
    IF HasKey(obj, k)
    THEN [i \in DOMAIN obj |-> IF obj[i].key = k THEN Member(k, val) ELSE obj[i]]
    ELSE Append(obj, Member(k, val))

RECURSIVE AssignAll(_, _)
AssignAll(obj, members) ==
    IF members = <<>> THEN obj
    ELSE AssignAll(SetKey(obj, Head(members).key, Head(members).val), Tail(members))

Parses(content) == content.kind = "json"

\* a repeated member name keeps the last value
JSONparse(content) == AssignAll(<<>>, content.entries)

JSONstringify(obj) == JsonText(obj)

(***************************************************************************)
(* The manifest rewrite: the assignments to packageJson, in source order.  *)
(***************************************************************************)
ScriptsMinimal == Obj(<<"start", "node server.js", "dev", "nodemon server.js">>)

ScriptsFull ==
    Obj(<<"start", "node server.js", "dev", "nodemon server.js",
          "test", "echo \"Error: no test specified\" && exit 1">>)

AssignmentsMinimal ==
    << Member("type", Str("module")),
       Member("scripts", ScriptsMinimal),
       Member("description", Str("MERN backend server with ESM modules")),
       Member("keywords", Arr(<<"mern", "express", "mongodb", "nodejs", "backend">>)) >>

AssignmentsFull ==
    << Member("type", Str("module")),
       Member("scripts", ScriptsFull),
       Member("description",
              Str("MERN backend server with JWT authentication and CRUD operations")),
       Member("keywords", Arr(<<"mern", "express", "mongodb", "nodejs", "backend",
                                "jwt", "auth", "api">>)),
       Member("author", Str("")),
       Member("license", Str("MIT")),
       Member("main", Str("server.js")) >>

\* a mutant: the assignment of packageJson.scripts is missing
ManifestAssignments_NoScripts(v) ==
    IF v = "minimal"
    THEN <<AssignmentsMinimal[1]>> \o SubSeq(AssignmentsMinimal, 3, 4)
    ELSE <<AssignmentsFull[1]>> \o SubSeq(AssignmentsFull, 3, 7)

ManifestAssignments(v) ==
    IF v = "minimal" THEN AssignmentsMinimal ELSE AssignmentsFull

(***************************************************************************)
(* The environment's inputs                                                *)
(***************************************************************************)
\* what 'npm init -y' writes in a directory without a manifest
NpmDefaults ==
    << Member("name", Str("<basename of the directory>")),
       Member("version", Str("1.0.0")),
       Member("description", Str("")),
       Member("main", Str("index.js")),
       Member("scripts", Obj(<<"test", "echo \"Error: no test specified\" && exit 1">>)),
       Member("keywords", Arr(<<>>)),
       Member("author", Str("")),
       Member("license", Str("ISC")) >>

\* what it writes over a manifest that was there: that manifest's members
Carried ==
    << Member("name", Str("existing-app")),
       Member("version", Str("2.3.4")),
       Member("main", Str("app.js")),
       Member("scripts", Obj(<<"build", "tsc">>)),
       Member("author", Str("someone")),
       Member("license", Str("GPL-3.0")),
       Member("type", Str("commonjs")),
       Member("dependencies", Obj(<<"left-pad", "1.3.0">>)) >>

\* the manifest file after a zero exit of the initializer
InitOutputs(before) ==
    {JsonText(NpmDefaults), Malformed}
        \cup (IF before = Absent THEN {} ELSE {JsonText(Carried)})
        \cup (IF Parses(before) THEN {JSONstringify(JSONparse(before))} ELSE {})

\* files that may be in the target directory before the run
PrePaths == {<<"config", "db.js">>, packageJsonPath, ReadmePath, StrangerPath}

\* the earlier content of the target directory: nothing, one of these files,
\* or all of them
PreTrees == {s \in SUBSET PrePaths : Cardinality(s) <= 1 \/ s = PrePaths}

\* the commands handed to execSync
CmdInit == "npm init -y"
CmdInstall(v) ==
    IF v = "minimal"
    THEN "npm install express mongoose dotenv cors jsonwebtoken"
    ELSE "npm install express mongoose dotenv cors jsonwebtoken bcryptjs morgan"
CmdInstallDev == "npm install -D nodemon"
CmdUpdate == "npx npm-check-updates -u"
CmdReinstall == "npm install"
CmdLaunch == "npm run dev"

(***************************************************************************)
(* Init: the process has started, nothing has run yet.                     *)
(***************************************************************************)
Init ==
    /\ variant \in Variants
    /\ answer \in Answers
    /\ userFolder = <<>>
    /\ pc = "prompt"
    /\ idx = 1
    /\ \E exists \in BOOLEAN, pre \in PreTrees :
          /\ ~exists => pre = {}
          /\ dirs = IF exists
                    THEN {Root} \cup {p[1] : p \in pre}
                    ELSE {}
          /\ files = [p \in Paths |-> IF p \in pre THEN Old ELSE Absent]
          /\ preexisting = pre
    /\ run = 1
    /\ firstRun = [p \in Paths |-> Absent]
    /\ cwd = "origin"
    /\ calls = <<>>
    /\ stdout = <<>>
    /\ stderr = <<>>
    /\ packageJson = <<>>
    /\ thrown = "none"
    /\ exitCode = 0

(***************************************************************************)
(* Helpers of the actions                                                  *)
(***************************************************************************)
Call(op, arg, ok) == calls' = Append(calls, [op |-> op, arg |-> arg, ok |-> ok])

Log(tags) == stdout' = stdout \o tags

\* an error thrown outside the inner try blocks: the full variant's outer
\* catch handles it, the minimal variant's promise is rejected
Throw(step) ==
    /\ thrown' = step
    /\ pc' = IF variant = "full" THEN "catch" ELSE "rejected"

\* a mutant: a file that exists is left as it is (flag 'wx' without the error)
WriteFile_KeepExisting(fs, p, content) ==
    IF fs[p] = Absent THEN [fs EXCEPT ![p] = content] ELSE fs

\* fs.writeFile replaces the file's content
WriteFile(fs, p, content) == [fs EXCEPT ![p] = content]

(***************************************************************************)
(* createServerSetup, step by step                                         *)
(***************************************************************************)
\* const userFolder = await getUserFolder()
Prompt ==
    /\ pc = "prompt"
    /\ userFolder' = getUserFolder(answer)
    /\ pc' = "ensureDir"
    /\ Log(IF variant = "full" THEN <<"creatingIn">> ELSE <<>>)
    /\ UNCHANGED <<variant, answer, preexisting, run, firstRun,
                   idx, dirs, files, cwd, calls, stderr,
                   packageJson, thrown, exitCode>>

\* await fs.ensureDir(baseDir)
EnsureDir ==
    /\ pc = "ensureDir"
    /\ \E ok \in BOOLEAN :
          /\ Call("ensureDir", <<Root>>, ok)
          /\ IF ok
             THEN /\ dirs' = dirs \cup {Root}
                  /\ Log(IF variant = "full"
                         THEN <<"creatingFolders">>
                         ELSE <<"creatingIn", "creatingFolders">>)
                  /\ pc' = "mkdir"
                  /\ UNCHANGED thrown
             ELSE /\ Throw("ensureDir")
                  /\ UNCHANGED <<dirs, stdout>>
    /\ UNCHANGED <<variant, answer, preexisting, run, firstRun,
                   userFolder, idx, files, cwd, stderr,
                   packageJson, exitCode>>

\* a mutant: a failed mkdirSync is ignored and the loop goes on
Mkdir_Ignored ==
    /\ pc = "mkdir"
    /\ \E ok \in BOOLEAN :
          /\ Call("mkdir", <<folders[idx]>>, ok)
          /\ dirs' = IF ok THEN dirs \cup {folders[idx]} ELSE dirs
    /\ IF idx < Len(folders)
       THEN /\ idx' = idx + 1
            /\ UNCHANGED <<pc, stdout>>
       ELSE /\ idx' = 1
            /\ pc' = "write"
            /\ Log(IF variant = "full" THEN <<"creatingConfig">> ELSE <<"creatingFiles">>)
    /\ UNCHANGED <<variant, answer, preexisting, run, firstRun,
                   userFolder, files, cwd, stderr,
                   packageJson, thrown, exitCode>>

\* folders.forEach(folder => fs.mkdirSync(path.join(baseDir, folder), {recursive: true}))
Mkdir ==
    /\ pc = "mkdir"
    /\ \E ok \in BOOLEAN :
          /\ Call("mkdir", <<folders[idx]>>, ok)
          /\ IF ok
             THEN /\ dirs' = dirs \cup {folders[idx]}
                  /\ IF idx < Len(folders)
                     THEN /\ idx' = idx + 1
                          /\ UNCHANGED <<pc, stdout>>
                     ELSE /\ idx' = 1
                          /\ pc' = "write"
                          /\ Log(IF variant = "full"
                                 THEN <<"creatingConfig">>
                                 ELSE <<"creatingFiles">>)
                  /\ UNCHANGED thrown
             ELSE /\ Throw("mkdir")
                  /\ UNCHANGED <<dirs, idx, stdout>>
    /\ UNCHANGED <<variant, answer, preexisting, run, firstRun,
                   userFolder, files, cwd, stderr,
                   packageJson, exitCode>>

\* await fs.writeFile(path.join(baseDir, <template path>), <literal>)
WriteTemplate ==
    /\ pc = "write"
    /\ LET p == Templates(variant)[idx]
       IN  \E ok \in {b \in BOOLEAN : b => p[1] \in dirs} :
              /\ Call("write", p, ok)
              /\ IF ok
                 THEN /\ files' = WriteFile(files, p, TemplateContent(variant, p, userFolder))
                      /\ IF idx < Len(Templates(variant))
                         THEN /\ idx' = idx + 1
                              /\ UNCHANGED pc
                         ELSE /\ idx' = 1
                              /\ pc' = "chdir"
                      /\ UNCHANGED thrown
                 ELSE /\ Throw("write")
                      /\ UNCHANGED <<files, idx>>
    /\ UNCHANGED <<variant, answer, preexisting, run, firstRun,
                   userFolder, dirs, cwd, stdout, stderr,
                   packageJson, exitCode>>

\* a mutant: the working directory is left where it was
Chdir_NoEffect ==
    /\ pc = "chdir"
    /\ \E ok \in {b \in BOOLEAN : b => Root \in dirs} :
          /\ Call("chdir", <<Root>>, ok)
          /\ IF ok
             THEN /\ Log(<<"initNpm">>)
                  /\ pc' = "npmInit"
                  /\ UNCHANGED thrown
             ELSE /\ Throw("chdir")
                  /\ UNCHANGED stdout
    /\ UNCHANGED <<variant, answer, preexisting, run, firstRun,
                   userFolder, idx, dirs, files, cwd,
                   stderr, packageJson, exitCode>>

\* process.chdir(baseDir)
Chdir ==
    /\ pc = "chdir"
    /\ \E ok \in {b \in BOOLEAN : b => Root \in dirs} :
          /\ Call("chdir", <<Root>>, ok)
          /\ IF ok
             THEN /\ cwd' = "target"
                  /\ Log(<<"initNpm">>)
                  /\ pc' = "npmInit"
                  /\ UNCHANGED thrown
             ELSE /\ Throw("chdir")
                  /\ UNCHANGED <<cwd, stdout>>
    /\ UNCHANGED <<variant, answer, preexisting, run, firstRun,
                   userFolder, idx, dirs, files, stderr,
                   packageJson, exitCode>>

\* execSync('npm init -y', { stdio: 'inherit' })
NpmInit ==
    /\ pc = "npmInit"
    /\ \E ok \in BOOLEAN :
          /\ Call("exec", <<CmdInit>>, ok)
          /\ IF ok
             THEN /\ \E out \in InitOutputs(files[packageJsonPath]) :
                        files' = WriteFile(files, packageJsonPath, out)
                  /\ Log(<<"updatingPkg">>)
                  /\ pc' = "readManifest"
                  /\ UNCHANGED thrown
             ELSE /\ Throw("npmInit")
                  /\ UNCHANGED <<files, stdout>>
    /\ UNCHANGED <<variant, answer, preexisting, run, firstRun,
                   userFolder, idx, dirs, cwd, stderr,
                   packageJson, exitCode>>

\* const packageJson = JSON.parse(await fs.readFile(packageJsonPath, 'utf-8'))
ReadManifest ==
    /\ pc = "readManifest"
    /\ \E ok \in {b \in BOOLEAN : b => files[packageJsonPath] # Absent} :
          /\ Call("read", packageJsonPath, ok)
          /\ IF ok /\ Parses(files[packageJsonPath])
             THEN /\ packageJson' = JSONparse(files[packageJsonPath])
                  /\ pc' = "rewriteManifest"
                  /\ UNCHANGED thrown
             ELSE /\ Throw(IF ok THEN "parse" ELSE "read")
                  /\ UNCHANGED packageJson
    /\ UNCHANGED <<variant, answer, preexisting, run, firstRun,
                   userFolder, idx, dirs, files, cwd, stdout,
                   stderr, exitCode>>

\* a mutant: the manifest is built anew from the assigned members only
Rewritten_Fresh(obj, v) == AssignAll(<<>>, ManifestAssignments(v))

\* a mutant: the keywords are added to those the manifest already has
Rewritten_MoreKeywords(obj, v) ==
    LET new == AssignAll(obj, ManifestAssignments(v))
    IN  IF HasKey(obj, "keywords")
        THEN SetKey(new, "keywords",
                    Arr(Get(obj, "keywords").v \o Get(new, "keywords").v))
        ELSE new

\* packageJson.type = ...; packageJson.scripts = ...; ...
Rewritten(obj, v) == AssignAll(obj, ManifestAssignments(v))

\* the assignments, then
\* await fs.writeFile(packageJsonPath, JSON.stringify(packageJson, null, 2))
RewriteManifest ==
    /\ pc = "rewriteManifest"
    /\ packageJson' = Rewritten(packageJson, variant)
    /\ \E ok \in BOOLEAN :
          /\ Call("write", packageJsonPath, ok)
          /\ IF ok
             THEN /\ files' = WriteFile(files, packageJsonPath, JSONstringify(packageJson'))
                  /\ Log(<<"installing">>)
                  /\ pc' = "installDeps"
                  /\ UNCHANGED thrown
             ELSE /\ Throw("writeManifest")
                  /\ UNCHANGED <<files, stdout>>
    /\ UNCHANGED <<variant, answer, preexisting, run, firstRun,
                   userFolder, idx, dirs, cwd, stderr, exitCode>>

\* a mutant: a failed runtime install is ignored
InstallDeps_Ignored ==
    /\ pc = "installDeps"
    /\ \E ok \in BOOLEAN : Call("exec", <<CmdInstall(variant)>>, ok)
    /\ Log(IF variant = "full" THEN <<"installingDev">> ELSE <<>>)
    /\ pc' = "installDev"
    /\ UNCHANGED <<variant, answer, preexisting, run, firstRun,
                   userFolder, idx, dirs, files, cwd, stderr,
                   packageJson, thrown, exitCode>>

\* execSync('npm install <runtime dependencies>', { stdio: 'inherit' })
InstallDeps ==
    /\ pc = "installDeps"
    /\ \E ok \in BOOLEAN :
          /\ Call("exec", <<CmdInstall(variant)>>, ok)
          /\ IF ok
             THEN /\ Log(IF variant = "full" THEN <<"installingDev">> ELSE <<>>)
                  /\ pc' = "installDev"
                  /\ UNCHANGED thrown
             ELSE /\ Throw("installDeps")
                  /\ UNCHANGED stdout
    /\ UNCHANGED <<variant, answer, preexisting, run, firstRun,
                   userFolder, idx, dirs, files, cwd, stderr,
                   packageJson, exitCode>>

\* a mutant: a failed development install is tried again
InstallDev_Retry ==
    /\ pc = "installDev"
    /\ \E ok \in BOOLEAN :
          /\ Call("exec", <<CmdInstallDev>>, ok)
          /\ IF ok
             THEN /\ Log(<<"checkingUpdates">>)
                  /\ pc' = "update"
             ELSE UNCHANGED <<pc, stdout>>
    /\ UNCHANGED <<variant, answer, preexisting, run, firstRun,
                   userFolder, idx, dirs, files, cwd,
                   stderr, packageJson, thrown, exitCode>>

\* a mutant: a failed development install is ignored
InstallDev_Ignored ==
    /\ pc = "installDev"
    /\ \E ok \in BOOLEAN : Call("exec", <<CmdInstallDev>>, ok)
    /\ Log(<<"checkingUpdates">>)
    /\ pc' = "update"
    /\ UNCHANGED <<variant, answer, preexisting, run, firstRun,
                   userFolder, idx, dirs, files, cwd,
                   stderr, packageJson, thrown, exitCode>>

\* execSync('npm install -D nodemon', { stdio: 'inherit' }); on success the
\* optional block is entered and logs its first line
InstallDev ==
    /\ pc = "installDev"
    /\ \E ok \in BOOLEAN :
          /\ Call("exec", <<CmdInstallDev>>, ok)
          /\ IF ok
             THEN /\ Log(<<"checkingUpdates">>)
                  /\ pc' = "update"
                  /\ UNCHANGED thrown
             ELSE /\ Throw("installDev")
                  /\ UNCHANGED stdout
    /\ UNCHANGED <<variant, answer, preexisting, run, firstRun,
                   userFolder, idx, dirs, files, cwd, stderr,
                   packageJson, exitCode>>

\* a mutant: the full variant goes to the launch without writing README.md
AfterUpdate_NoReadme(warned) ==
    /\ Log((IF warned THEN <<"updateFailed">> ELSE <<>>)
             \o (IF variant = "minimal" THEN <<"starting">> ELSE <<>>))
    /\ pc' = "launch"

\* what follows the optional block: the minimal variant announces the launch,
\* the full variant writes README.md first
AfterUpdate(warned) ==
    /\ Log((IF warned THEN <<"updateFailed">> ELSE <<>>)
             \o (IF variant = "minimal" THEN <<"starting">> ELSE <<>>))
    /\ pc' = IF variant = "minimal" THEN "launch" ELSE "readme"

\* a mutant: the helper has a try/catch of its own and the reinstall follows it
UpdateHelper_OwnCatch ==
    /\ pc = "update"
    /\ \E ok \in BOOLEAN :
          /\ Call("exec", <<CmdUpdate>>, ok)
          /\ Log(IF ok THEN <<>> ELSE <<"updateFailed">>)
    /\ pc' = "reinstall"
    /\ UNCHANGED <<variant, answer, preexisting, run, firstRun,
                   userFolder, idx, dirs, files, cwd,
                   stderr, packageJson, thrown, exitCode>>

\* try { execSync('npx npm-check-updates -u') ... } catch { log }
UpdateHelper ==
    /\ pc = "update"
    /\ \E ok \in BOOLEAN :
          /\ Call("exec", <<CmdUpdate>>, ok)
          /\ IF ok
             THEN /\ pc' = "reinstall"
                  /\ UNCHANGED stdout
             ELSE AfterUpdate(TRUE)
    /\ UNCHANGED <<variant, answer, preexisting, run, firstRun,
                   userFolder, idx, dirs, files, cwd, stderr,
                   packageJson, thrown, exitCode>>

\* a mutant: the optional block has no try/catch around the reinstall
Reinstall_Fatal ==
    /\ pc = "reinstall"
    /\ \E ok \in BOOLEAN :
          /\ Call("exec", <<CmdReinstall>>, ok)
          /\ IF ok
             THEN AfterUpdate(FALSE) /\ UNCHANGED thrown
             ELSE Throw("reinstall") /\ UNCHANGED stdout
    /\ UNCHANGED <<variant, answer, preexisting, run, firstRun,
                   userFolder, idx, dirs, files, cwd, stderr,
                   packageJson, exitCode>>

\* try { ... execSync('npm install') } catch { log }
Reinstall ==
    /\ pc = "reinstall"
    /\ \E ok \in BOOLEAN :
          /\ Call("exec", <<CmdReinstall>>, ok)
          /\ AfterUpdate(~ok)
    /\ UNCHANGED <<variant, answer, preexisting, run, firstRun,
                   userFolder, idx, dirs, files, cwd, stderr,
                   packageJson, thrown, exitCode>>

\* full variant only: await fs.writeFile(path.join(baseDir, 'README.md'), ...),
\* the success lines and the launch announcement
WriteReadme ==
    /\ pc = "readme"
    /\ \E ok \in {b \in BOOLEAN : b => Root \in dirs} :
          /\ Call("write", ReadmePath, ok)
          /\ IF ok
             THEN /\ files' = WriteFile(files, ReadmePath,
                                        TemplateContent(variant, ReadmePath, userFolder))
                  /\ Log(<<"completed", "createdIn", "filesGenerated", "pkgConfigured",
                           "depsInstalled", "healthCheck", "apiDocs", "starting",
                           "pressCtrlC">>)
                  /\ pc' = "launch"
                  /\ UNCHANGED thrown
             ELSE /\ Throw("writeReadme")
                  /\ UNCHANGED <<files, stdout>>
    /\ UNCHANGED <<variant, answer, preexisting, run, firstRun,
                   userFolder, idx, dirs, cwd, stderr,
                   packageJson, exitCode>>

\* execSync('npm run dev', { stdio: 'inherit' }): in the full variant inside
\* try/catch, in the minimal variant bare and followed by the closing lines
Launch ==
    /\ pc = "launch"
    /\ \E ok \in BOOLEAN :
          /\ Call("exec", <<CmdLaunch>>, ok)
          /\ IF variant = "full"
             THEN /\ Log(IF ok THEN <<>>
                         ELSE <<"stopped", "toRestart", "cd", "npmRunDev", "npmStart">>)
                  /\ pc' = "done"
                  /\ UNCHANGED thrown
             ELSE IF ok
                  THEN /\ Log(<<"ready", "createdIn", "toStartAgain", "cd", "npmRunDev",
                                "npmStart", "envNote", "testApi">>)
                       /\ pc' = "done"
                       /\ UNCHANGED thrown
                  ELSE /\ Throw("launch")
                       /\ UNCHANGED stdout
    /\ UNCHANGED <<variant, answer, preexisting, run, firstRun,
                   userFolder, idx, dirs, files, cwd, stderr,
                   packageJson, exitCode>>

\* full variant: catch (error) { console.error(...); process.exit(1) }
Catch ==
    /\ pc = "catch"
    /\ stderr' = Append(stderr, "errorCreating")
    /\ exitCode' = 1
    /\ pc' = "done"
    /\ UNCHANGED <<variant, answer, preexisting, run, firstRun,
                   userFolder, idx, dirs, files, cwd, calls,
                   stdout, packageJson, thrown>>

\* createServerSetup().catch(console.error): the error is printed and the
\* process ends when the event loop is empty, with the default exit code
Rejected ==
    /\ pc = "rejected"
    /\ stderr' = Append(stderr, "error")
    /\ pc' = "done"
    /\ UNCHANGED <<variant, answer, preexisting, run, firstRun,
                   userFolder, idx, dirs, files, cwd, calls,
                   stdout, packageJson, thrown, exitCode>>

Next ==
    \/ Prompt
    \/ EnsureDir
    \/ Mkdir
    \/ WriteTemplate
    \/ Chdir
    \/ NpmInit
    \/ ReadManifest
    \/ RewriteManifest
    \/ InstallDeps
    \/ InstallDev
    \/ UpdateHelper
    \/ Reinstall
    \/ WriteReadme
    \/ Launch
    \/ Catch
    \/ Rejected

Spec == Init /\ [][Next]_vars

(***************************************************************************)
(* Vocabulary of the properties, read off the record of calls              *)
(***************************************************************************)
ExecAt(i, cmd) == calls[i].op = "exec" /\ calls[i].arg = <<cmd>>

Invoked(cmd) == \E i \in DOMAIN calls : ExecAt(i, cmd)

ExitedNonZero(cmd) == \E i \in DOMAIN calls : ExecAt(i, cmd) /\ ~calls[i].ok

ExitedZero(cmd) == \E i \in DOMAIN calls : ExecAt(i, cmd) /\ calls[i].ok

MandatoryInstallFailedAt(i) ==
    /\ ~calls[i].ok
    /\ ExecAt(i, CmdInstall(variant)) \/ ExecAt(i, CmdInstallDev)

\* a directory or file operation failed
FsFailed ==
    \E i \in DOMAIN calls :
        calls[i].op \in {"ensureDir", "mkdir", "write", "chdir", "read"} /\ ~calls[i].ok

\* the manifest was read and is not JSON
ManifestUnparsable ==
    /\ \E i \in DOMAIN calls : calls[i].op = "read" /\ calls[i].ok
    /\ ~Parses(files[packageJsonPath])

FatalFailure ==
    \/ FsFailed
    \/ ExitedNonZero(CmdInit)
    \/ ManifestUnparsable
    \/ ExitedNonZero(CmdInstall(variant))
    \/ ExitedNonZero(CmdInstallDev)

RunSucceeded == pc = "done" /\ ~FatalFailure

RestartInstructionsPrinted ==
    \E i, j, k \in DOMAIN stdout :
        /\ i < j /\ j < k
        /\ stdout[i] = "cd" /\ stdout[j] = "npmRunDev" /\ stdout[k] = "npmStart"

(***************************************************************************)
(* C1 (as claimed): in every variant a run with a fatal failure ends with  *)
(* exit code 1 and a line on the error stream, and a run without one ends  *)
(* with exit code 0.  The minimal variant has no process.exit(1): its      *)
(* rejected promise is printed and the process ends with code 0.           *)
(***************************************************************************)
C1_ExitCodes ==
    pc = "done" =>
        IF FatalFailure THEN exitCode = 1 /\ stderr # <<>> ELSE exitCode = 0

(***************************************************************************)
(* C2: once a mandatory dependency install (runtime or development) has    *)
(* exited non-zero, neither the update helper nor the reinstall nor        *)
(* 'npm run dev' is invoked later in the run.                              *)
(***************************************************************************)
C2_NoOptionalNoLaunchAfterInstallFailure ==
    \A i \in DOMAIN calls :
        MandatoryInstallFailedAt(i) =>
            \A j \in DOMAIN calls :
                j > i => ~(\/ ExecAt(j, CmdUpdate)
                           \/ ExecAt(j, CmdReinstall)
                           \/ ExecAt(j, CmdLaunch))

C2_Witness ==
    /\ pc = "done"
    /\ \E i \in DOMAIN calls : MandatoryInstallFailedAt(i)

(***************************************************************************)
(* C3: in a finished run without fatal failure the launch was invoked and  *)
(* the exit code is 0, whether the update helper or its reinstall exited   *)
(* non-zero or not: the optional step's failure changes neither.           *)
(***************************************************************************)
OptionalStepFailed == ExitedNonZero(CmdUpdate) \/ ExitedNonZero(CmdReinstall)

C3_OptionalFailureStillLaunches ==
    /\ (RunSucceeded /\ OptionalStepFailed) => Invoked(CmdLaunch) /\ exitCode = 0
    /\ (RunSucceeded /\ ~OptionalStepFailed) => exitCode = 0

C3_Witness ==
    /\ RunSucceeded
    /\ ExitedZero(CmdUpdate) /\ ExitedNonZero(CmdReinstall)
    /\ Invoked(CmdLaunch)

(***************************************************************************)
(* C4 (as claimed): in every variant a launch that exits non-zero is       *)
(* caught: the restart instructions are printed, the exit code is 0 and    *)
(* nothing reaches the error reporting.  In the minimal variant the launch *)
(* is outside any try block: its error rejects the promise, is printed by  *)
(* console.error, and the instructions that follow the launch are skipped. *)
(***************************************************************************)
C4_LaunchFailureCaught ==
    (pc = "done" /\ ExitedNonZero(CmdLaunch)) =>
        /\ RestartInstructionsPrinted
        /\ exitCode = 0
        /\ stderr = <<>>
        /\ thrown = "none"

(***************************************************************************)
(* C5: the folder name is the answer without its leading and trailing      *)
(* whitespace when something is left, and "server" otherwise.              *)
(***************************************************************************)
AllWhitespace(s) == \A i \in DOMAIN s : s[i] \in Whitespace

C5_FolderIsTrimmedOrDefault ==
    pc # "prompt" =>
        IF AllWhitespace(answer)
        THEN userFolder = <<"s", "e", "r", "v", "e", "r">>
        ELSE \E i, j \in DOMAIN answer :
                /\ i <= j
                /\ userFolder = SubSeq(answer, i, j)
                /\ answer[i] \notin Whitespace
                /\ answer[j] \notin Whitespace
                /\ \A k \in DOMAIN answer : (k < i \/ k > j) => answer[k] \in Whitespace

C5_Witness ==
    /\ pc # "prompt"
    /\ Len(answer) >= 3
    /\ answer[1] \in Whitespace
    /\ answer[Len(answer)] \in Whitespace
    /\ ~AllWhitespace(answer)

(***************************************************************************)
(* The manifest on disk once the rewrite has written it                    *)
(***************************************************************************)
RewriteDone ==
    \E i \in DOMAIN calls :
        calls[i].op = "write" /\ calls[i].arg = packageJsonPath /\ calls[i].ok

Manifest == JSONparse(files[packageJsonPath])

\* the entries of a script map, as a set of <<name, command>>
Entries(val) ==
    {<<val.v[2 * n - 1], val.v[2 * n]>> : n \in 1..(Len(val.v) \div 2)}

StartAndDev == {<<"start", "node server.js">>, <<"dev", "nodemon server.js">>}

(***************************************************************************)
(* C6 (as claimed): after the rewrite the manifest's type is "module" and  *)
(* its scripts are exactly start and dev, in every variant.                *)
(***************************************************************************)
C6_ScriptsExactlyStartAndDev ==
    RewriteDone =>
        /\ HasKey(Manifest, "type") /\ Get(Manifest, "type") = Str("module")
        /\ HasKey(Manifest, "scripts")
        /\ Get(Manifest, "scripts").kind = "obj"
        /\ Entries(Get(Manifest, "scripts")) = StartAndDev

(***************************************************************************)
(* C6 (amended): after the rewrite the manifest's type is "module" and its *)
(* scripts are exactly start and dev in the minimal variant, and exactly   *)
(* start, dev and test (npm's placeholder command) in the full variant,    *)
(* whatever scripts the initializer had produced.                          *)
(***************************************************************************)
C6_ScriptsPerVariant ==
    RewriteDone =>
        /\ HasKey(Manifest, "type") /\ Get(Manifest, "type") = Str("module")
        /\ HasKey(Manifest, "scripts")
        /\ Get(Manifest, "scripts").kind = "obj"
        /\ Entries(Get(Manifest, "scripts")) =
              IF variant = "minimal"
              THEN StartAndDev
              ELSE StartAndDev
                     \cup {<<"test", "echo \"Error: no test specified\" && exit 1">>}

C6_Witness ==
    /\ pc = "installDeps"
    /\ RewriteDone
    /\ variant = "full"
    /\ preexisting = {packageJsonPath}
    /\ HasKey(Manifest, "dependencies")

(***************************************************************************)
(* C7: the step that rewrites the manifest, seen on the disk               *)
(***************************************************************************)
RewriteStep == pc = "rewriteManifest" /\ pc' = "installDeps"

ManifestAfter == JSONparse(files'[packageJsonPath])

SevenKeys == {"type", "scripts", "description", "keywords", "author", "license", "main"}

FourKeys == {"type", "scripts", "description", "keywords"}

KeysOf(obj) == {obj[i].key : i \in DOMAIN obj}

\* the value the generator assigns to a key (author, license and main are
\* assigned by the full variant only)
Assigned(k) ==
    CASE k = "type" -> Str("module")
      [] k = "scripts" ->
            IF variant = "minimal"
            THEN Obj(<<"start", "node server.js", "dev", "nodemon server.js">>)
            ELSE Obj(<<"start", "node server.js", "dev", "nodemon server.js",
                       "test", "echo \"Error: no test specified\" && exit 1">>)
      [] k = "description" ->
            IF variant = "minimal"
            THEN Str("MERN backend server with ESM modules")
            ELSE Str("MERN backend server with JWT authentication and CRUD operations")
      [] k = "keywords" ->
            IF variant = "minimal"
            THEN Arr(<<"mern", "express", "mongodb", "nodejs", "backend">>)
            ELSE Arr(<<"mern", "express", "mongodb", "nodejs", "backend",
                       "jwt", "auth", "api">>)
      [] k = "author" -> Str("")
      [] k = "license" -> Str("MIT")
      [] k = "main" -> Str("server.js")

RewriteOverwritesExactly(keys) ==
    RewriteStep =>
        /\ \A k \in keys :
              HasKey(ManifestAfter, k) /\ Get(ManifestAfter, k) = Assigned(k)
        /\ \A k \in KeysOf(Manifest) \ keys :
              HasKey(ManifestAfter, k) /\ Get(ManifestAfter, k) = Get(Manifest, k)
        /\ KeysOf(ManifestAfter) = KeysOf(Manifest) \cup keys

(***************************************************************************)
(* C7 (as claimed): in every variant the rewrite overwrites exactly type,  *)
(* scripts, description, keywords, author, license and main, and keeps     *)
(* every other key of the initializer's manifest with its value.           *)
(***************************************************************************)
C7_OverwritesSevenKeys == [][RewriteOverwritesExactly(SevenKeys)]_vars

(***************************************************************************)
(* C7 (amended): the rewrite overwrites exactly type, scripts, description *)
(* and keywords in the minimal variant, and exactly those four and author, *)
(* license and main in the full variant; every other key of the            *)
(* initializer's manifest (in the minimal variant author, license and main *)
(* among them) is in the rewritten manifest with its value unchanged.      *)
(***************************************************************************)
C7_OverwritesPerVariant ==
    [][RewriteOverwritesExactly(IF variant = "minimal" THEN FourKeys ELSE SevenKeys)]_vars

C7_Witness ==
    /\ pc = "installDeps"
    /\ RewriteDone
    /\ variant = "minimal"
    /\ HasKey(Manifest, "name") /\ HasKey(Manifest, "version")
    /\ Get(Manifest, "license") = Str("ISC")
    /\ Get(Manifest, "type") = Str("module")

(***************************************************************************)
(* C8 (as claimed): after the rewrite the manifest holds publishConfig     *)
(* with access "public".  No variant assigns publishConfig.                *)
(***************************************************************************)
C8_PublishConfigPublic ==
    RewriteDone =>
        /\ HasKey(Manifest, "publishConfig")
        /\ Get(Manifest, "publishConfig").kind = "obj"
        /\ <<"access", "public">> \in Entries(Get(Manifest, "publishConfig"))

(***************************************************************************)
(* The documented on-disk layout of each variant                           *)
(***************************************************************************)
SixFolders == {"config", "controllers", "middlewares", "models", "routes", "utils"}

MinimalLayout ==
    { <<".", ".env">>, <<".", ".gitignore">>, <<".", "package.json">>,
      <<".", "server.js">>, <<"config", "db.js">>,
      <<"controllers", "itemController.js">>,
      <<"middlewares", "authMiddleware.js">>,
      <<"models", "itemModel.js">>,
      <<"routes", "itemRoutes.js">>,
      <<"utils", "generateToken.js">> }

FullLayout ==
    { <<".", ".env">>, <<".", ".gitignore">>, <<".", "package.json">>,
      <<".", "README.md">>, <<".", "server.js">>, <<"config", "db.js">>,
      <<"controllers", "authController.js">>, <<"controllers", "itemController.js">>,
      <<"middlewares", "authMiddleware.js">>, <<"middlewares", "asyncHandler.js">>,
      <<"middlewares", "errorHandler.js">>,
      <<"models", "User.js">>, <<"models", "Item.js">>,
      <<"routes", "auth.js">>, <<"routes", "items.js">>,
      <<"utils", "generateToken.js">> }

Layout == IF variant = "minimal" THEN MinimalLayout ELSE FullLayout

Present == {p \in Paths : files[p] # Absent}

GeneratorContent(p) ==
    IF p = packageJsonPath
    THEN JsonText([i \in 1..Cardinality(IF variant = "minimal" THEN FourKeys ELSE SevenKeys)
                     |-> Member(ManifestAssignments(variant)[i].key,
                                Assigned(ManifestAssignments(variant)[i].key))])
    ELSE [kind |-> "literal",
          entries |-> <<[key |-> p[2],
                         val |-> [kind |-> variant,
                                  v |-> <<p[1]>> \o (IF p = <<".", "README.md">>
                                                     THEN userFolder ELSE <<>>)]]>>]

StepRank(c, readmeRank) ==
    CASE c.op \in {"ensureDir", "mkdir"} -> 2
      [] c.op = "write" /\ c.arg = <<".", "README.md">> -> readmeRank
      [] c.op = "write" /\ c.arg = <<".", "package.json">> -> 5
      [] c.op \in {"write", "chdir"} -> 3
      [] c.op = "read" -> 5
      [] c.op = "exec" /\ c.arg = <<"npm init -y">> -> 4
      [] c.op = "exec" /\ c.arg = <<"npm install -D nodemon">> -> 7
      [] c.op = "exec" /\ c.arg = <<"npx npm-check-updates -u">> -> 8
      [] c.op = "exec" /\ c.arg = <<"npm install">> -> 8
      [] c.op = "exec" /\ c.arg = <<"npm run dev">> -> 10
      [] OTHER -> 6      \* the runtime install, whose package list differs per variant

InOrder(readmeRank) ==
    /\ calls # <<>> => pc # "prompt"
    /\ \A i \in 1..(Len(calls) - 1) :
          StepRank(calls[i], readmeRank) <= StepRank(calls[i + 1], readmeRank)

WrittenBefore(i, paths) ==
    \A p \in paths :
        \E j \in 1..(i - 1) :
            calls[j].op = "write" /\ calls[j].arg = p /\ calls[j].ok

(***************************************************************************)
(* C11 (as claimed): the steps occur in the order prompt, directory        *)
(* creation, template writes, init, manifest rewrite, runtime install, dev *)
(* install, optional update, launch, and every template file of the        *)
(* variant is written before the initializer is invoked.                   *)
(***************************************************************************)
C11_AllTemplatesBeforeInit ==
    /\ InOrder(3)
    /\ \A i \in DOMAIN calls :
          ExecAt(i, CmdInit) => WrittenBefore(i, Layout \ {<<".", "package.json">>})

(***************************************************************************)
(* C11 (amended): the steps occur in the claimed order, except that the    *)
(* full variant writes its template README.md after the optional update   *)
(* and before the launch; every other template file of the variant is      *)
(* written before the initializer is invoked.                              *)
(***************************************************************************)
C11_OrderWithLateReadme ==
    /\ InOrder(9)
    /\ \A i \in DOMAIN calls :
          ExecAt(i, CmdInit) =>
              WrittenBefore(i, Layout \ {<<".", "package.json">>, <<".", "README.md">>})
    /\ \A i \in DOMAIN calls :
          (ExecAt(i, CmdLaunch) /\ variant = "full") =>
              WrittenBefore(i, {<<".", "README.md">>})

C11_Witness ==
    /\ pc = "done"
    /\ variant = "full"
    /\ ExitedZero(CmdReinstall)
    /\ Invoked(CmdLaunch)

(***************************************************************************)
(* C12: each external command is invoked at most once in a run (so never   *)
(* again after it failed), and exactly once in a run in which every step   *)
(* succeeds.                                                               *)
(***************************************************************************)
ExternalCommands ==
    { "npm init -y",
      IF variant = "minimal"
      THEN "npm install express mongoose dotenv cors jsonwebtoken"
      ELSE "npm install express mongoose dotenv cors jsonwebtoken bcryptjs morgan",
      "npm install -D nodemon",
      "npx npm-check-updates -u",
      "npm install",
      "npm run dev" }

TimesInvoked(cmd) == Cardinality({i \in DOMAIN calls : ExecAt(i, cmd)})

EveryStepSucceeded ==
    /\ pc = "done"
    /\ thrown = "none"
    /\ \A i \in DOMAIN calls : calls[i].ok

C12_EachCommandOnce ==
    /\ \A i \in DOMAIN calls : calls[i].op = "exec" => calls[i].arg[1] \in ExternalCommands
    /\ \A cmd \in ExternalCommands : TimesInvoked(cmd) <= 1
    /\ EveryStepSucceeded => \A cmd \in ExternalCommands : TimesInvoked(cmd) = 1

C12_Witness ==
    /\ EveryStepSucceeded
    /\ \A cmd \in ExternalCommands : TimesInvoked(cmd) = 1

(***************************************************************************)
(* C13: when creating the target directory or one of the six folders       *)
(* fails, the run aborts and the error is printed, nothing is called       *)
(* afterwards (no template write, no subprocess), the files are as they    *)
(* were before the run, and every directory created before the failure is  *)
(* still there; creating the target directory can succeed when it exists.  *)
(***************************************************************************)
DirCall(i) == calls[i].op \in {"ensureDir", "mkdir"}

C13_DirectoryFailureAborts ==
    /\ \A i \in DOMAIN calls :
          (DirCall(i) /\ ~calls[i].ok) =>
              /\ i = Len(calls)
              /\ pc \in {"catch", "rejected", "done"}
              /\ pc = "done" => stderr # <<>>
              /\ \A p \in Paths :
                    files[p] = IF p \in preexisting THEN Old ELSE Absent
              /\ \A j \in 1..(i - 1) :
                    (DirCall(j) /\ calls[j].ok) => calls[j].arg[1] \in dirs
    /\ (pc = "ensureDir" /\ "." \in dirs) => ENABLED (EnsureDir /\ pc' = "mkdir")
    /\ \A i \in DOMAIN calls :
          (calls[i].op = "ensureDir" /\ calls[i].ok) => "." \in dirs

C13_Witness ==
    /\ pc = "done"
    /\ Len(calls) = 4
    /\ calls[1].op = "ensureDir" /\ calls[1].ok
    /\ calls[3].op = "mkdir" /\ calls[3].ok
    /\ calls[4].op = "mkdir" /\ ~calls[4].ok
    /\ "." \in dirs /\ "controllers" \in dirs
    /\ preexisting = {}

(***************************************************************************)
(* C14: the working directory becomes the target directory once, after the *)
(* template files that precede the initializer are written and before any  *)
(* subprocess; whenever a subprocess is about to be invoked or has been    *)
(* invoked, the working directory is the target directory.                 *)
(***************************************************************************)
ChdirAt(i) == calls[i].op = "chdir"

AboutToExec ==
    pc \in {"npmInit", "installDeps", "installDev", "update", "reinstall", "launch"}

C14_WorkingDirectoryIsTarget ==
    /\ AboutToExec => cwd = "target"
    /\ Cardinality({i \in DOMAIN calls : ChdirAt(i)}) <= 1
    /\ cwd = "target" <=> \E i \in DOMAIN calls : ChdirAt(i) /\ calls[i].ok
    /\ \A i \in DOMAIN calls :
          calls[i].op = "exec" =>
              /\ cwd = "target"
              /\ \E j \in 1..(i - 1) : ChdirAt(j) /\ calls[j].ok
    /\ \A i \in DOMAIN calls :
          ChdirAt(i) =>
              WrittenBefore(i, Layout \ {<<".", "package.json">>, <<".", "README.md">>})

C14_Witness ==
    /\ pc = "launch"
    /\ cwd = "target"
    /\ Cardinality({i \in DOMAIN calls : ChdirAt(i)}) = 1
    /\ ExitedNonZero(CmdUpdate)

(***************************************************************************)
(* C15: the reinstall is invoked only after the update helper exited zero; *)
(* when the helper exits non-zero the reinstall is skipped, the warning is *)
(* logged once and the run goes on with the step after the optional block  *)
(* (the launch in the minimal variant, the README.md write in the full).   *)
(***************************************************************************)
Warnings == Cardinality({i \in DOMAIN stdout : stdout[i] = "updateFailed"})

NextStepAfterOptional(i) ==
    IF i = Len(calls)
    THEN pc = IF variant = "minimal" THEN "launch" ELSE "readme"
    ELSE IF variant = "minimal"
         THEN ExecAt(i + 1, CmdLaunch)
         ELSE calls[i + 1].op = "write" /\ calls[i + 1].arg = <<".", "README.md">>

C15_ReinstallOnlyAfterHelperSucceeded ==
    /\ \A i \in DOMAIN calls :
          ExecAt(i, CmdReinstall) =>
              \E j \in 1..(i - 1) : ExecAt(j, CmdUpdate) /\ calls[j].ok
    /\ \A i \in DOMAIN calls :
          (ExecAt(i, CmdUpdate) /\ ~calls[i].ok) =>
              /\ ~Invoked(CmdReinstall)
              /\ Warnings = 1
              /\ NextStepAfterOptional(i)
    /\ Warnings <= 1

C15_Witness ==
    /\ pc = "done"
    /\ ExitedNonZero(CmdUpdate)
    /\ ~Invoked(CmdReinstall)
    /\ Invoked(CmdLaunch)
    /\ Warnings = 1

(***************************************************************************)
(* C16: the setup-success line ("...is ready!" in the minimal variant,     *)
(* "...setup completed successfully!" in the full variant) is on the       *)
(* output only when the directories, every template write before the       *)
(* initializer, the initializer, the manifest rewrite and both mandatory   *)
(* installs succeeded, and never in a run with a fatal failure.            *)
(***************************************************************************)
SuccessPrinted ==
    \E i \in DOMAIN stdout :
        stdout[i] = IF variant = "minimal" THEN "ready" ELSE "completed"

Succeeded(op, arg) ==
    \E i \in DOMAIN calls : calls[i].op = op /\ calls[i].arg = arg /\ calls[i].ok

C16_SuccessLineOnlyAfterSetup ==
    SuccessPrinted =>
        /\ Succeeded("ensureDir", <<".">>)
        /\ \A d \in SixFolders : Succeeded("mkdir", <<d>>)
        /\ \A p \in Layout \ {<<".", "package.json">>, <<".", "README.md">>} :
              Succeeded("write", p)
        /\ ExitedZero("npm init -y")
        /\ Succeeded("write", <<".", "package.json">>)
        /\ \E i, j \in DOMAIN calls :
              /\ i < j
              /\ calls[i].op = "exec" /\ calls[i].ok
              /\ calls[i].arg[1] \in
                    {"npm install express mongoose dotenv cors jsonwebtoken",
                     "npm install express mongoose dotenv cors jsonwebtoken bcryptjs morgan"}
              /\ ExecAt(j, "npm install -D nodemon") /\ calls[j].ok
        /\ ~FatalFailure
        /\ thrown = "none"
        /\ stderr = <<>>

C16_Witness ==
    /\ pc = "done"
    /\ SuccessPrinted
    /\ variant = "full"
    /\ ExitedNonZero(CmdLaunch)

(***************************************************************************)
(* A second run: after a run in which every step succeeded the operator    *)
(* starts the same generator again, in the same directory, and types the   *)
(* same answer.  The new process starts afresh; the disk is as the first   *)
(* run left it.                                                            *)
(***************************************************************************)
Rerun ==
    /\ pc = "done"
    /\ run = 1
    /\ thrown = "none"
    /\ \A i \in DOMAIN calls : calls[i].ok
    /\ run' = 2
    /\ firstRun' = files
    /\ preexisting' = {p \in Paths : files[p] # Absent}
    /\ pc' = "prompt"
    /\ userFolder' = <<>>
    /\ idx' = 1
    /\ cwd' = "origin"
    /\ calls' = <<>>
    /\ stdout' = <<>>
    /\ stderr' = <<>>
    /\ packageJson' = <<>>
    /\ exitCode' = 0
    /\ UNCHANGED <<variant, answer, dirs, files, thrown>>

NextTwice == Next \/ Rerun

SpecTwice == Init /\ [][NextTwice]_vars

(***************************************************************************)
(* C17: a second run of the same variant with the same folder name on the  *)
(* same target directory, every step succeeding both times, leaves every   *)
(* template file and every manifest field the rewrite assigns as the first *)
(* run left them.                                                          *)
(***************************************************************************)
FirstManifest == JSONparse(firstRun[packageJsonPath])

C17_SecondRunChangesNothing ==
    (run = 2 /\ EveryStepSucceeded) =>
        /\ \A p \in Layout \ {<<".", "package.json">>} :
              files[p] = firstRun[p] /\ files[p].kind = "literal"
        /\ \A k \in (IF variant = "minimal" THEN FourKeys ELSE SevenKeys) :
              /\ HasKey(Manifest, k) /\ HasKey(FirstManifest, k)
              /\ Get(Manifest, k) = Get(FirstManifest, k)

C17_Witness ==
    /\ run = 2
    /\ EveryStepSucceeded
    /\ variant = "full"
    /\ userFolder = <<"a">>
    /\ HasKey(FirstManifest, "keywords")
    /\ Manifest = FirstManifest

====
